---- MODULE Spec2Model ----
(***************************************************************************)
(* k3s-coreos: the ISO build pipeline of ConsoleController.create_iso      *)
(* (src/src/controller.py) with ISOCreationConfig.validate                 *)
(* (src/src/models.py).  One run of create_iso is a walk of pc through the *)
(* statements of the method; the view, the filesystem and the external     *)
(* commands are the environment, whose answers are chosen with \E.         *)
(*                                                                         *)
(* A call into the view (and a command in flight inside                    *)
(* view.execute_with_progress) may return, raise an ordinary Exception or  *)
(* raise KeyboardInterrupt: these are the blocking points of the run.      *)
(***************************************************************************)
EXTENDS Integers, Sequences, FiniteSets, TLC

VARIABLES
    pc,                 \* position of the run inside create_iso
    outcome,            \* "running", "returned" or "raised"
    exc,                \* the exception in flight (or raised out of create_iso)
    config,             \* self.config
    errors,             \* create_iso's local `errors`
    idx,                \* position of the `for error in errors` loop
    ignition_file,      \* create_iso's local `ignition_file` (as-target of the with)
    temp_butane_file,   \* create_iso's local `temp_butane_file`
    old_ignition_file,  \* _create_ignition_file's local `old_ignition_file`
    old_ignition_file2, \* create_iso's local `old_ignition_file` (line 213)
    downloaded,         \* download_base_iso's `result.stdout.strip()`
    disk,               \* the filesystem: path -> [exists, data]
    log,                \* what this run did to the view and the filesystem, in order
    out0,               \* the output image on disk when the run started
    base0,              \* whether the base image was on disk when the run started
    runs,               \* number of runs of create_iso started so far
    kwargs,             \* the explicit arguments of an ISOCreationConfig(...) call
    env,                \* what getpass, tempfile and the cache lookup answer in this process
    other,              \* a second ISOCreationConfig built from the same arguments
    rendered            \* process_butane_template's local `processed_content`

vars == <<pc, outcome, exc, config, errors, idx, ignition_file, temp_butane_file,
          old_ignition_file, old_ignition_file2, downloaded, disk, log, out0,
          base0, runs, kwargs, env, other, rendered>>

\* the variables of the configuration object on its own (used by SpecConfig)
cfgvars == <<kwargs, env, other, rendered>>

\* the variables of a run of create_iso other than pc, config and errors
runvars == <<outcome, exc, idx, ignition_file, temp_butane_file, old_ignition_file,
             old_ignition_file2, downloaded, disk, log, out0, base0, runs>>

(***************************************************************************)
(* Bounds                                                                  *)
(***************************************************************************)
MaxRuns == 2

(***************************************************************************)
(* Paths and file contents                                                 *)
(***************************************************************************)
TemplatePath == "resources/server.bu"
DefaultIgn == "/tmp/server.ign"
BaseIsoPath == "cache/fedora-coreos.iso"
OutputIsoPath == "server.iso"
DownloadedIso == "fedora-coreos-live.x86_64.iso"

\* names tempfile.mkstemp can hand out in temp_dir, per suffix
IgnPool == <<"/tmp/server-1.ign", "/tmp/server-2.ign", "/tmp/server-3.ign">>
BuPool == <<"/tmp/server-1.bu", "/tmp/server-2.bu", "/tmp/server-3.bu">>

Range(s) == {s[i] : i \in DOMAIN s}

TempPaths == Range(IgnPool) \cup Range(BuPool)
Paths == TempPaths \cup {TemplatePath, BaseIsoPath, OutputIsoPath, DownloadedIso}

Absent == [exists |-> FALSE, data |-> <<>>]
File(d) == [exists |-> TRUE, data |-> d]

TemplateText == <<"a", "{{SSH_KEY}}", "b", "{{HOSTNAME}}", "c", "{{USERNAME}}", "{{FOO}}">>
OldImage == <<"iso", "previous build">>
BaseImage == <<"fedora-coreos">>
FetchedImage == <<"fedora-coreos", "fetched">>
PartialImage(n) == <<"iso", "truncated", ToString(n)>>
NewImage(n) == <<"iso", "custom", ToString(n)>>
IgnitionData == <<"ignition">>

\* os.path.exists
path_exists(p) == p \in DOMAIN disk /\ disk[p].exists

(***************************************************************************)
(* Exceptions                                                              *)
(***************************************************************************)
NoExc == [type |-> "none", msg |-> <<>>]
Exc(t, m) == [type |-> t, msg |-> m]

ViewOutcome == {"ok", "error", "interrupt"}
ViewExc(o) == IF o = "interrupt" THEN Exc("KeyboardInterrupt", <<>>)
              ELSE IF o = "error" THEN Exc("Exception", <<"view error">>)
              ELSE NoExc

\* what a command that ran to its end reports: exit code and captured streams
\* (empty for every event that is not a failed command)
NoResult == [returncode |-> "", stdout |-> "", stderr |-> ""]

Event(e, a, o) == [ev |-> e, args |-> a, out |-> o, res |-> NoResult]

(***************************************************************************)
(* ISOCreationConfig                                                       *)
(***************************************************************************)
Config(disk_, out_, ign_, base_, key_, host_, user_) ==
    [install_disk |-> disk_, output_iso |-> out_, ignition_file |-> ign_,
     base_iso |-> base_, ssh_key |-> key_, hostname |-> host_, username |-> user_]

\* ISOCreationConfig() as the controller's constructor builds it
DefaultConfig == Config("/dev/sda", OutputIsoPath, DefaultIgn, BaseIsoPath, "", "k3s", "core")

\* the configurations a view may hand back from configure_settings
Configs ==
    { Config(d, o, DefaultIgn, b, k, h, u) :
        d \in {"", "/dev/sda"}, o \in {"", OutputIsoPath}, b \in {"", BaseIsoPath},
        k \in {"", "ssh-ed25519 AAAA x@y"}, h \in {"", "k3s"}, u \in {"", "core"} }

Cond(b, s) == IF b THEN s ELSE <<>>

\* a validate that stops at the first violation
validate_short_circuit(c) ==
    IF c.install_disk = "" THEN <<"Install disk must be specified">>
    ELSE IF c.output_iso = "" THEN <<"Output ISO filename must be specified">>
    ELSE IF c.ssh_key = "" THEN <<"SSH key must be specified">>
    ELSE IF c.hostname = "" THEN <<"Hostname must be specified">>
    ELSE Cond(c.username = "", <<"Username must be specified">>)

\* a validate that checks the username before everything else
validate_username_first(c) ==
    Cond(c.username = "", <<"Username must be specified">>)
    \o Cond(c.install_disk = "", <<"Install disk must be specified">>)
    \o Cond(c.output_iso = "", <<"Output ISO filename must be specified">>)
    \o Cond(c.ssh_key = "", <<"SSH key must be specified">>)
    \o Cond(c.hostname = "", <<"Hostname must be specified">>)

validate(c) ==
    Cond(c.install_disk = "", <<"Install disk must be specified">>)
    \o Cond(c.output_iso = "", <<"Output ISO filename must be specified">>)
    \o Cond(c.ssh_key = "", <<"SSH key must be specified">>)
    \o Cond(c.hostname = "", <<"Hostname must be specified">>)
    \o Cond(c.username = "", <<"Username must be specified">>)

is_valid(c) == Len(validate(c)) = 0

\* an existence check that never sees the file
output_iso_exists_never(c) == FALSE

output_iso_exists(c) == c.output_iso # "" /\ path_exists(c.output_iso)

\* an existence check that never sees the file
base_iso_exists_never(c) == FALSE

\* an existence check that looks for the file the fetch command leaves behind
base_iso_exists_checks_download(c) == path_exists(DownloadedIso)

base_iso_exists(c) == path_exists(c.base_iso)

(***************************************************************************)
(* ISOCreationConfig: construction                                         *)
(***************************************************************************)
DefaultBaseName == "fedora-coreos.iso"

\* the dataclass defaults ("" stands for None: __post_init__ tests `not field`)
DefaultKwargs ==
    [install_disk |-> "/dev/sda", output_iso |-> "", ignition_file |-> "",
     base_iso |-> DefaultBaseName, ssh_key |-> "", hostname |-> "k3s",
     username |-> "", cache_dir |-> "", temp_dir |-> ""]

\* the arguments a caller may pass to ISOCreationConfig(...)
Kwargs ==
    [install_disk : {"/dev/sda", "/dev/nvme0n1"},
     output_iso : {"", "custom.iso"},
     ignition_file : {"", "custom.ign"},
     base_iso : {DefaultBaseName, "custom-base.iso", ""},
     ssh_key : {"", "ssh-ed25519 AAAA x@y", "{{HOSTNAME}}"},
     hostname : {"k3s", "", "{{USERNAME}}"},
     username : {"", "admin"},
     cache_dir : {"", "mycache"},
     temp_dir : {"", "mytmp"}]

\* getpass.getuser(), CacheDirectoryManager.get_app_cache_dir() and
\* get_temp_dir(): fixed for the life of the process
DefaultEnv == [user |-> "core", cache |-> "cache", tmp |-> "/tmp"]
Envs == {[user |-> u, cache |-> "cache", tmp |-> "/tmp"] : u \in {"core", "root"}}

\* str(directory / name)
Join(d, n) ==
    CASE d = "/tmp" /\ n = "server.ign" -> DefaultIgn
      [] d = "mytmp" /\ n = "server.ign" -> "mytmp/server.ign"
      [] d = "cache" /\ n = DefaultBaseName -> BaseIsoPath
      [] d = "mycache" /\ n = DefaultBaseName -> "mycache/fedora-coreos.iso"
      [] d = "cache" /\ n = BaseIsoPath -> "cache/cache/fedora-coreos.iso"
      [] d = "mycache" /\ n = "mycache/fedora-coreos.iso" -> "mycache/mycache/fedora-coreos.iso"

\* a resolution that puts the cache directory in front of any base image
\* named like the default, resolved or not
post_init_by_base_name(c, e) ==
    LET cd == IF c.cache_dir = "" THEN e.cache ELSE c.cache_dir
        td == IF c.temp_dir = "" THEN e.tmp ELSE c.temp_dir
    IN  [c EXCEPT
            !.username = IF c.username = "" THEN e.user ELSE c.username,
            !.cache_dir = cd,
            !.temp_dir = td,
            !.ignition_file = IF c.ignition_file = "" THEN Join(td, "server.ign")
                              ELSE c.ignition_file,
            !.output_iso = IF c.output_iso = "" THEN "server.iso" ELSE c.output_iso,
            !.base_iso = IF c.base_iso \in {DefaultBaseName, Join(cd, DefaultBaseName)}
                         THEN Join(cd, c.base_iso)
                         ELSE c.base_iso]

\* a resolution that sets the output path whether it was given or not
post_init_overwrites_output(c, e) ==
    LET cd == IF c.cache_dir = "" THEN e.cache ELSE c.cache_dir
        td == IF c.temp_dir = "" THEN e.tmp ELSE c.temp_dir
    IN  [c EXCEPT
            !.username = IF c.username = "" THEN e.user ELSE c.username,
            !.cache_dir = cd,
            !.temp_dir = td,
            !.ignition_file = IF c.ignition_file = "" THEN Join(td, "server.ign")
                              ELSE c.ignition_file,
            !.output_iso = "server.iso",
            !.base_iso = IF c.base_iso = DefaultBaseName
                         THEN Join(cd, DefaultBaseName)
                         ELSE c.base_iso]

\* ISOCreationConfig.__post_init__ on the object c in the environment e
post_init(c, e) ==
    LET cd == IF c.cache_dir = "" THEN e.cache ELSE c.cache_dir
        td == IF c.temp_dir = "" THEN e.tmp ELSE c.temp_dir
    IN  [c EXCEPT
            !.username = IF c.username = "" THEN e.user ELSE c.username,
            !.cache_dir = cd,
            !.temp_dir = td,
            !.ignition_file = IF c.ignition_file = "" THEN Join(td, "server.ign")
                              ELSE c.ignition_file,
            !.output_iso = IF c.output_iso = "" THEN "server.iso" ELSE c.output_iso,
            !.base_iso = IF c.base_iso = DefaultBaseName
                         THEN Join(cd, DefaultBaseName)
                         ELSE c.base_iso]

(***************************************************************************)
(* Initial state: a fresh controller, before the first run                 *)
(***************************************************************************)
InitDisk(tpl, base, out) ==
    [p \in Paths |->
        IF p = TemplatePath THEN (IF tpl THEN File(TemplateText) ELSE Absent)
        ELSE IF p = BaseIsoPath THEN (IF base THEN File(BaseImage) ELSE Absent)
        ELSE IF p = OutputIsoPath THEN (IF out THEN File(OldImage) ELSE Absent)
        ELSE Absent]

Init ==
    /\ pc = "configure"
    /\ outcome = "running"
    /\ exc = NoExc
    /\ config = DefaultConfig
    /\ errors = <<>>
    /\ idx = 1
    /\ ignition_file = ""
    /\ temp_butane_file = ""
    /\ old_ignition_file = ""
    /\ old_ignition_file2 = ""
    /\ downloaded = ""
    /\ \E tpl \in BOOLEAN, base \in BOOLEAN, out \in BOOLEAN :
          disk = InitDisk(tpl, base, out)
    /\ log = <<>>
    /\ out0 = disk[OutputIsoPath]
    /\ base0 = disk[BaseIsoPath].exists
    /\ runs = 1
    /\ kwargs = DefaultKwargs
    /\ env = DefaultEnv
    /\ other = DefaultKwargs
    /\ rendered = <<>>


(***************************************************************************)
(* ConsoleController._temp_file                                            *)
(***************************************************************************)
\* tempfile.mkstemp: a name of the pool that does not exist yet ("" when none is left)
mkstemp(pool) ==
    LET free == {i \in DOMAIN pool : ~path_exists(pool[i])}
    IN  IF free = {} THEN "" ELSE pool[CHOOSE i \in free : \A j \in free : i <= j]

\* an os.remove that reports success and leaves the file where it is
os_remove_noop(d, l, e, path, rm) ==
    IF rm = "ok"
    THEN [disk |-> d,
          log |-> Append(l, Event("remove", <<path>>, "ok")),
          exc |-> e]
    ELSE [disk |-> d,
          log |-> Append(l, Event("remove", <<path>>, "fail")),
          exc |-> Exc("OSError", <<"remove failed">>)]

\* os.remove(path), which the OS may refuse: the disk, the log and the
\* exception afterwards (`e` is the exception in flight before the call)
os_remove(d, l, e, path, rm) ==
    IF rm = "ok"
    THEN [disk |-> [d EXCEPT ![path] = Absent],
          log |-> Append(l, Event("remove", <<path>>, "ok")),
          exc |-> e]
    ELSE [disk |-> d,
          log |-> Append(l, Event("remove", <<path>>, "fail")),
          exc |-> Exc("OSError", <<"remove failed">>)]

\* a _temp_file whose removal is not in a finally block: skipped when the body raised
temp_file_exit_no_finally(d, l, e, path, rm) ==
    IF e = NoExc /\ path \in DOMAIN d /\ d[path].exists
    THEN os_remove(d, l, e, path, rm)
    ELSE [disk |-> d, log |-> l, exc |-> e]

\* a _temp_file that cleans up only after a body that raised
temp_file_exit_only_on_error(d, l, e, path, rm) ==
    IF e # NoExc /\ path \in DOMAIN d /\ d[path].exists
    THEN os_remove(d, l, e, path, rm)
    ELSE [disk |-> d, log |-> l, exc |-> e]

\* the finally block: remove the file if it is still there; a failing os.remove
\* raises out of the finally block and replaces the exception in flight
temp_file_exit(d, l, e, path, rm) ==
    IF path \in DOMAIN d /\ d[path].exists
    THEN os_remove(d, l, e, path, rm)
    ELSE [disk |-> d, log |-> l, exc |-> e]

\* a _temp_file that writes the content before its try block: a failed write
\* leaves the file mkstemp made where it is
temp_file_enter_write_before_try(pool, content, mk, wr, rm) ==
    LET p == mkstemp(pool)
        made == [disk EXCEPT ![p] = File(<<>>)]
        l1 == Append(log, Event("mkstemp", <<p>>, "ok"))
    IN  IF mk = "fail" \/ p = ""
        THEN [path |-> "", disk |-> disk,
              log |-> Append(log, Event("mkstemp", <<>>, "fail")),
              exc |-> Exc("OSError", <<"mkstemp failed">>)]
        ELSE IF content = <<>>
        THEN [path |-> p, disk |-> made, log |-> l1, exc |-> NoExc]
        ELSE IF wr = "ok"
        THEN [path |-> p, disk |-> [disk EXCEPT ![p] = File(content)],
              log |-> Append(l1, Event("write", <<p>>, "ok")), exc |-> NoExc]
        ELSE [path |-> "", disk |-> made,
              log |-> Append(l1, Event("write", <<p>>, "fail")),
              exc |-> Exc("OSError", <<"write failed">>)]

\* from mkstemp to the yield: the path handed to the body ("" when the body
\* is never run), and the disk, log and exception at that point
temp_file_enter(pool, content, mk, wr, rm) ==
    LET p == mkstemp(pool)
        made == [disk EXCEPT ![p] = File(<<>>)]
        l1 == Append(log, Event("mkstemp", <<p>>, "ok"))
    IN  IF mk = "fail" \/ p = ""
        THEN [path |-> "", disk |-> disk,
              log |-> Append(log, Event("mkstemp", <<>>, "fail")),
              exc |-> Exc("OSError", <<"mkstemp failed">>)]
        ELSE IF content = <<>>
        THEN [path |-> p, disk |-> made, log |-> l1, exc |-> NoExc]
        ELSE IF wr = "ok"
        THEN [path |-> p, disk |-> [disk EXCEPT ![p] = File(content)],
              log |-> Append(l1, Event("write", <<p>>, "ok")), exc |-> NoExc]
        ELSE LET x == temp_file_exit(made, Append(l1, Event("write", <<p>>, "fail")),
                                     Exc("OSError", <<"write failed">>), p, rm)
             IN  [path |-> "", disk |-> x.disk, log |-> x.log, exc |-> x.exc]

(***************************************************************************)
(* ConsoleController.run_command                                           *)
(***************************************************************************)
CmdOutcome == {"ok", "fail", "interrupt"}

\* what a failing command reports: exit code and captured streams
FailResults ==
    {[returncode |-> "1", stdout |-> o, stderr |-> e] :
        o \in {"", "out"}, e \in {"", "bad syntax"}}

\* the CompletedProcess of a command that exited 0 having written s to stdout
OkResult(s) == [returncode |-> "0", stdout |-> s, stderr |-> ""]

\* what execute_with_progress can produce for a command that did o: a
\* CompletedProcess (stdout one of outs), the data of a CalledProcessError, or nothing
Results(o, outs) ==
    IF o = "ok" THEN {OkResult(s) : s \in outs}
    ELSE IF o = "fail" THEN FailResults
    ELSE {NoResult}

\* execute_with_progress returning: the event keeps the result object
LaunchOk(cmd, r) == [Event("execute_with_progress", cmd, "ok") EXCEPT !.res = r]

\* execute_with_progress raising CalledProcessError: the event keeps what the
\* exception carries
LaunchFailed(cmd, r) == [Event("execute_with_progress", cmd, "fail") EXCEPT !.res = r]

\* an error message that leaves the captured streams out
error_msg_without_streams(cmd, r) ==
    <<"Command failed:">> \o cmd \o <<"Return code:", r.returncode>>

error_msg(cmd, r) ==
    <<"Command failed:">> \o cmd \o <<"Return code:", r.returncode>>
    \o Cond(r.stdout # "", <<"STDOUT:", r.stdout>>)
    \o Cond(r.stderr # "", <<"STDERR:", r.stderr>>)

\* str(CalledProcessError)
called_process_error(cmd, r) ==
    Exc("CalledProcessError",
        <<"Command">> \o cmd \o <<"returned non-zero exit status", r.returncode>>)

\* a run_command that reports a failing command and carries on
run_command_no_raise(l, cmd, o, r, se) ==
    IF o = "ok"
    THEN [log |-> Append(l, LaunchOk(cmd, r)), exc |-> NoExc, result |-> r]
    ELSE IF o = "interrupt"
    THEN [log |-> Append(l, Event("execute_with_progress", cmd, "interrupt")),
          exc |-> Exc("KeyboardInterrupt", <<>>), result |-> NoResult]
    ELSE [log |-> Append(Append(l, LaunchFailed(cmd, r)),
                         Event("show_error", error_msg(cmd, r), se)),
          exc |-> IF se = "ok" THEN NoExc ELSE ViewExc(se), result |-> NoResult]

\* a run_command that hands back a result of its own making, without the
\* command's output
run_command_drops_output(l, cmd, o, r, se) ==
    IF o = "ok"
    THEN [log |-> Append(l, LaunchOk(cmd, r)), exc |-> NoExc, result |-> OkResult("")]
    ELSE IF o = "interrupt"
    THEN [log |-> Append(l, Event("execute_with_progress", cmd, "interrupt")),
          exc |-> Exc("KeyboardInterrupt", <<>>), result |-> NoResult]
    ELSE [log |-> Append(Append(l, LaunchFailed(cmd, r)),
                         Event("show_error", error_msg(cmd, r), se)),
          exc |-> IF se = "ok" THEN called_process_error(cmd, r) ELSE ViewExc(se),
          result |-> NoResult]

\* the log and the exception after run_command(cmd, ...): `o` is what the
\* command did, `r` its exit code and streams when it failed, `se` what
\* view.show_error did in the except clause
run_command(l, cmd, o, r, se) ==
    IF o = "ok"
    THEN [log |-> Append(l, LaunchOk(cmd, r)), exc |-> NoExc, result |-> r]
    ELSE IF o = "interrupt"
    THEN [log |-> Append(l, Event("execute_with_progress", cmd, "interrupt")),
          exc |-> Exc("KeyboardInterrupt", <<>>), result |-> NoResult]
    ELSE [log |-> Append(Append(l, LaunchFailed(cmd, r)),
                         Event("show_error", error_msg(cmd, r), se)),
          exc |-> IF se = "ok" THEN called_process_error(cmd, r) ELSE ViewExc(se),
          result |-> NoResult]

(***************************************************************************)
(* ConsoleController.process_butane_template: the substitutions            *)
(***************************************************************************)
\* str.replace on a text of tokens
replace(text, old, new) == [i \in DOMAIN text |-> IF text[i] = old THEN new ELSE text[i]]

processed_content(template_content, c) ==
    replace(replace(replace(template_content, "{{SSH_KEY}}", c.ssh_key),
                    "{{HOSTNAME}}", c.hostname),
            "{{USERNAME}}", c.username)

(***************************************************************************)
(* create_iso, statement by statement                                      *)
(***************************************************************************)
\* line 167: self.config = self.view.configure_settings()
ConfigureSettings ==
    /\ pc = "configure"
    /\ \E o \in ViewOutcome :
        /\ log' = Append(log, Event("configure_settings", <<>>, o))
        /\ exc' = ViewExc(o)
        /\ IF o = "ok"
           THEN /\ \E c \in Configs : config' = c
                /\ pc' = "validate"
           ELSE /\ pc' = "handler"
                /\ UNCHANGED config
    /\ UNCHANGED <<outcome, errors, idx, ignition_file, temp_butane_file,
                   old_ignition_file, old_ignition_file2, downloaded, disk,
                   out0, base0, runs>>
    /\ UNCHANGED cfgvars

\* a validation whose result is not looked at
after_validate_ignored(errs) == "summary"

\* a create_iso that validates again and again until the configuration is valid
after_validate_until_valid(errs) == IF errs # <<>> THEN "validate" ELSE "summary"

\* line 171: if errors:
after_validate(errs) == IF errs # <<>> THEN "report" ELSE "summary"

\* lines 170-171: errors = self.config.validate(); if errors:
Validate ==
    /\ pc = "validate"
    /\ errors' = validate(config)
    /\ idx' = 1
    /\ pc' = after_validate(errors')
    /\ UNCHANGED <<outcome, exc, config, ignition_file, temp_butane_file,
                   old_ignition_file, old_ignition_file2, downloaded, disk, log,
                   out0, base0, runs>>
    /\ UNCHANGED cfgvars

\* a create_iso that reports the first violation only and returns
ReportError_first_only ==
    /\ pc = "report"
    /\ idx <= Len(errors)
    /\ \E o \in ViewOutcome :
        /\ log' = Append(log, Event("show_error", <<errors[idx]>>, o))
        /\ exc' = ViewExc(o)
        /\ IF o # "ok"
           THEN /\ pc' = "handler"
                /\ UNCHANGED <<idx, outcome>>
           ELSE /\ pc' = "done"
                /\ outcome' = "returned"
                /\ UNCHANGED idx
    /\ UNCHANGED <<config, errors, ignition_file, temp_butane_file,
                   old_ignition_file, old_ignition_file2, downloaded, disk,
                   out0, base0, runs>>
    /\ UNCHANGED cfgvars

\* lines 172-174: for error in errors: self.view.show_error(error); return
ReportError ==
    /\ pc = "report"
    /\ idx <= Len(errors)
    /\ \E o \in ViewOutcome :
        /\ log' = Append(log, Event("show_error", <<errors[idx]>>, o))
        /\ exc' = ViewExc(o)
        /\ IF o # "ok"
           THEN /\ pc' = "handler"
                /\ UNCHANGED <<idx, outcome>>
           ELSE IF idx = Len(errors)
           THEN /\ pc' = "done"
                /\ outcome' = "returned"
                /\ UNCHANGED idx
           ELSE /\ idx' = idx + 1
                /\ UNCHANGED <<pc, outcome>>
    /\ UNCHANGED <<config, errors, ignition_file, temp_butane_file,
                   old_ignition_file, old_ignition_file2, downloaded, disk,
                   out0, base0, runs>>
    /\ UNCHANGED cfgvars

\* line 177: self.view.show_settings_summary(self.config)
ShowSettingsSummary ==
    /\ pc = "summary"
    /\ \E o \in ViewOutcome :
        /\ log' = Append(log, Event("show_settings_summary", <<>>, o))
        /\ exc' = ViewExc(o)
        /\ pc' = IF o = "ok" THEN "confirm" ELSE "handler"
    /\ UNCHANGED <<outcome, config, errors, idx, ignition_file, temp_butane_file,
                   old_ignition_file, old_ignition_file2, downloaded, disk,
                   out0, base0, runs>>
    /\ UNCHANGED cfgvars

\* a confirmation whose answer is not looked at
after_confirm_ignored(o) ==
    IF o \in {"ok", "declined"} THEN "ign_enter" ELSE "handler"

\* where create_iso goes after confirm_proceed answered `o`
after_confirm(o) ==
    CASE o = "ok" -> "ign_enter"
      [] o = "declined" -> "done"
      [] OTHER -> "handler"

\* lines 180-182: if not self.view.confirm_proceed(): return
ConfirmProceed ==
    /\ pc = "confirm"
    /\ \E o \in ViewOutcome \cup {"declined"} :
        /\ log' = Append(log, Event("confirm_proceed", <<>>, o))
        /\ exc' = ViewExc(o)
        /\ pc' = after_confirm(o)
        /\ outcome' = IF pc' = "done" THEN "returned" ELSE outcome
    /\ UNCHANGED <<config, errors, idx, ignition_file, temp_butane_file,
                   old_ignition_file, old_ignition_file2, downloaded, disk,
                   out0, base0, runs>>
    /\ UNCHANGED cfgvars

\* line 187 with lines 90-96 and 25-39: open the activation-file scope
\* a _create_ignition_file that reads the value to restore after it has
\* already stored the scoped path in the configuration
CreateIgnitionFile_saves_after_swap ==
    /\ pc = "ign_enter"
    /\ \E mk \in {"ok", "fail"} :
        LET t == temp_file_enter(IgnPool, <<>>, mk, "ok", "ok")
        IN  /\ disk' = t.disk
            /\ log' = t.log
            /\ exc' = t.exc
            /\ IF t.exc = NoExc
               THEN /\ config' = [config EXCEPT !.ignition_file = t.path]
                    /\ old_ignition_file' = t.path
                    /\ ignition_file' = t.path
                    /\ pc' = "step1"
               ELSE /\ pc' = "handler"
                    /\ UNCHANGED <<old_ignition_file, config, ignition_file>>
    /\ UNCHANGED <<outcome, errors, idx, temp_butane_file, old_ignition_file2,
                   downloaded, out0, base0, runs>>
    /\ UNCHANGED cfgvars

CreateIgnitionFile ==
    /\ pc = "ign_enter"
    /\ \E mk \in {"ok", "fail"} :
        LET t == temp_file_enter(IgnPool, <<>>, mk, "ok", "ok")
        IN  /\ disk' = t.disk
            /\ log' = t.log
            /\ exc' = t.exc
            /\ IF t.exc = NoExc
               THEN /\ old_ignition_file' = config.ignition_file
                    /\ config' = [config EXCEPT !.ignition_file = t.path]
                    /\ ignition_file' = t.path
                    /\ pc' = "step1"
               ELSE /\ pc' = "handler"
                    /\ UNCHANGED <<old_ignition_file, config, ignition_file>>
    /\ UNCHANGED <<outcome, errors, idx, temp_butane_file, old_ignition_file2,
                   downloaded, out0, base0, runs>>
    /\ UNCHANGED cfgvars

\* line 189: self.view.show_step("Step 1", "Generate Ignition file")
ShowStep1 ==
    /\ pc = "step1"
    /\ \E o \in ViewOutcome :
        /\ log' = Append(log, Event("show_step", <<"Step 1", "Generate Ignition file">>, o))
        /\ exc' = ViewExc(o)
        /\ pc' = IF o = "ok" THEN "bu_enter" ELSE "ign_restore"
    /\ UNCHANGED <<outcome, config, errors, idx, ignition_file, temp_butane_file,
                   old_ignition_file, old_ignition_file2, downloaded, disk,
                   out0, base0, runs>>
    /\ UNCHANGED cfgvars

\* line 190 with lines 62-88: render the template into a scoped .bu file
\* a process_butane_template that renders an empty text when the template is missing
ProcessButaneTemplate_without_check ==
    /\ pc = "bu_enter"
    /\ \E mk \in {"ok", "fail"}, wr \in {"ok", "fail"}, rm \in {"ok", "fail"} :
        LET t == temp_file_enter(
                    BuPool, processed_content(disk[TemplatePath].data, config),
                    mk, wr, rm)
        IN  /\ disk' = t.disk
            /\ log' = t.log
            /\ exc' = t.exc
            /\ temp_butane_file' = t.path
            /\ pc' = IF t.exc = NoExc THEN "convert" ELSE "ign_restore"
    /\ UNCHANGED <<outcome, config, errors, idx, ignition_file, old_ignition_file,
                   old_ignition_file2, downloaded, out0, base0, runs>>
    /\ UNCHANGED cfgvars

\* lines 62-88: the template check, the rendering and the entry of the _temp_file scope
ProcessButaneTemplate ==
    /\ pc = "bu_enter"
    /\ IF ~path_exists(TemplatePath)
       THEN /\ exc' = Exc("ValueError", <<"Template file not found:", TemplatePath>>)
            /\ pc' = "ign_restore"
            /\ UNCHANGED <<disk, log, temp_butane_file>>
       ELSE \E mk \in {"ok", "fail"}, wr \in {"ok", "fail"}, rm \in {"ok", "fail"} :
            LET t == temp_file_enter(
                        BuPool, processed_content(disk[TemplatePath].data, config),
                        mk, wr, rm)
            IN  /\ disk' = t.disk
                /\ log' = t.log
                /\ exc' = t.exc
                /\ temp_butane_file' = t.path
                /\ pc' = IF t.exc = NoExc THEN "convert" ELSE "ign_restore"
    /\ UNCHANGED <<outcome, config, errors, idx, ignition_file, old_ignition_file,
                   old_ignition_file2, downloaded, out0, base0, runs>>
    /\ UNCHANGED cfgvars

convert_cmd == <<"butane", "--pretty", "--strict", temp_butane_file, "--output", ignition_file>>

\* a convert step that tries again when the command failed
after_convert_retry(e) ==
    IF e = NoExc THEN "validate_ign"
    ELSE IF e.type = "CalledProcessError" THEN "convert"
    ELSE "bu_exit"

\* where create_iso goes after the convert command: on, or out of the with block
\* a failed convert that unwinds past the template scope's finally block
after_convert_skips_template_exit(e) == IF e = NoExc THEN "validate_ign" ELSE "ign_restore"

after_convert(e) == IF e = NoExc THEN "validate_ign" ELSE "bu_exit"

\* lines 192-200: butane --pretty --strict <template> --output <ignition>
Convert ==
    /\ pc = "convert"
    /\ \E o \in CmdOutcome, se \in ViewOutcome : \E r \in Results(o, {""}) :
        LET x == run_command(log, convert_cmd, o, r, se)
        IN  /\ log' = x.log
            /\ exc' = x.exc
            /\ disk' = IF o = "ok"
                       THEN [disk EXCEPT ![ignition_file] = File(IgnitionData)]
                       ELSE disk
            /\ pc' = after_convert(x.exc)
    /\ UNCHANGED <<outcome, config, errors, idx, ignition_file, temp_butane_file,
                   old_ignition_file, old_ignition_file2, downloaded, out0, base0, runs>>
    /\ UNCHANGED cfgvars

validate_cmd == <<"ignition-validate", ignition_file>>

\* lines 203-204: ignition-validate <ignition>
\* a create_iso that leaves the template scope before it validates
ValidateIgnition_after_scope ==
    /\ pc = "validate_ign"
    /\ \E o \in CmdOutcome, se \in ViewOutcome : \E r \in Results(o, {""}) :
        LET c == temp_file_exit(disk, log, exc, temp_butane_file, "ok")
            x == run_command(c.log, validate_cmd, o, r, se)
        IN  /\ disk' = c.disk
            /\ log' = x.log
            /\ exc' = x.exc
    /\ pc' = "bu_exit"
    /\ UNCHANGED <<outcome, config, errors, idx, ignition_file, temp_butane_file,
                   old_ignition_file, old_ignition_file2, downloaded,
                   out0, base0, runs>>
    /\ UNCHANGED cfgvars

\* lines 203-204: ignition-validate, still inside the template scope
ValidateIgnition ==
    /\ pc = "validate_ign"
    /\ \E o \in CmdOutcome, se \in ViewOutcome : \E r \in Results(o, {""}) :
        LET x == run_command(log, validate_cmd, o, r, se)
        IN  /\ log' = x.log
            /\ exc' = x.exc
    /\ pc' = "bu_exit"
    /\ UNCHANGED <<outcome, config, errors, idx, ignition_file, temp_butane_file,
                   old_ignition_file, old_ignition_file2, downloaded, disk,
                   out0, base0, runs>>
    /\ UNCHANGED cfgvars

\* the end of the `with self.process_butane_template()` block (lines 40-42)
TemplateExit ==
    /\ pc = "bu_exit"
    /\ \E rm \in {"ok", "fail"} :
        LET x == temp_file_exit(disk, log, exc, temp_butane_file, rm)
        IN  /\ disk' = x.disk
            /\ log' = x.log
            /\ exc' = x.exc
            /\ pc' = IF x.exc = NoExc THEN "download" ELSE "ign_restore"
    /\ UNCHANGED <<outcome, config, errors, idx, ignition_file, temp_butane_file,
                   old_ignition_file, old_ignition_file2, downloaded, out0, base0, runs>>
    /\ UNCHANGED cfgvars

\* lines 106-108: the base image is already there
DownloadBaseIsoExists ==
    /\ pc = "download"
    /\ base_iso_exists(config)
    /\ pc' = "customize"
    /\ UNCHANGED <<outcome, exc, config, errors, idx, ignition_file, temp_butane_file,
                   old_ignition_file, old_ignition_file2, downloaded, disk, log,
                   out0, base0, runs>>
    /\ UNCHANGED cfgvars

\* line 110: self.view.show_step("Step 2", ...)
DownloadShowStep ==
    /\ pc = "download"
    /\ ~base_iso_exists(config)
    /\ \E o \in ViewOutcome :
        /\ log' = Append(log, Event("show_step", <<"Step 2", "Download base Fedora CoreOS ISO">>, o))
        /\ exc' = ViewExc(o)
        /\ pc' = IF o = "ok" THEN "dl_cmd" ELSE "ign_restore"
    /\ UNCHANGED <<outcome, config, errors, idx, ignition_file, temp_butane_file,
                   old_ignition_file, old_ignition_file2, downloaded, disk,
                   out0, base0, runs>>
    /\ UNCHANGED cfgvars

download_cmd == <<"coreos-installer", "download", "-f", "iso", "--decompress">>

\* a download_base_iso that carries on after a fetch command that did not succeed
DownloadCommand_ignores_failure ==
    /\ pc = "dl_cmd"
    /\ \E o \in CmdOutcome, se \in ViewOutcome :
      \E r \in Results(o, {"", DownloadedIso}) :
        LET x == run_command(log, download_cmd, o, r, se)
        IN  /\ log' = x.log
            /\ exc' = NoExc
            /\ IF o = "ok"
               THEN /\ downloaded' = x.result.stdout
                    /\ \E made \in BOOLEAN :
                          disk' = IF made
                                  THEN [disk EXCEPT ![DownloadedIso] = File(FetchedImage)]
                                  ELSE disk
               ELSE UNCHANGED <<downloaded, disk>>
            /\ pc' = "dl_rename"
    /\ UNCHANGED <<outcome, config, errors, idx, ignition_file, temp_butane_file,
                   old_ignition_file, old_ignition_file2, out0, base0, runs>>
    /\ UNCHANGED cfgvars

\* lines 112-116: run the fetch command; its stdout names the file it produced
DownloadCommand ==
    /\ pc = "dl_cmd"
    /\ \E o \in CmdOutcome, se \in ViewOutcome :
      \E r \in Results(o, {"", DownloadedIso}) :
        LET x == run_command(log, download_cmd, o, r, se)
        IN  /\ log' = x.log
            /\ exc' = x.exc
            /\ IF o = "ok"
               THEN /\ downloaded' = x.result.stdout
                    /\ \E made \in BOOLEAN :
                          disk' = IF made
                                  THEN [disk EXCEPT ![DownloadedIso] = File(FetchedImage)]
                                  ELSE disk
                    /\ pc' = "dl_rename"
               ELSE /\ pc' = "ign_restore"
                    /\ UNCHANGED <<downloaded, disk>>
    /\ UNCHANGED <<outcome, config, errors, idx, ignition_file, temp_butane_file,
                   old_ignition_file, old_ignition_file2, out0, base0, runs>>
    /\ UNCHANGED cfgvars

\* os.rename(src, dst): fails when dst is no usable path, or when the OS refuses
rename(d, l, src, dst, rn) ==
    IF rn = "ok" /\ dst \in DOMAIN d
    THEN [disk |-> [d EXCEPT ![dst] = d[src], ![src] = Absent],
          log |-> Append(l, Event("rename", <<src, dst>>, "ok")),
          exc |-> NoExc]
    ELSE [disk |-> d,
          log |-> Append(l, Event("rename", <<src, dst>>, "fail")),
          exc |-> Exc("OSError", <<"rename failed">>)]

\* lines 117-121: move the downloaded file to config.base_iso, if there is one
DownloadRename ==
    /\ pc = "dl_rename"
    /\ IF downloaded # "" /\ path_exists(downloaded)
       THEN \E rn \in {"ok", "fail"} :
            LET x == rename(disk, log, downloaded, config.base_iso, rn)
            IN  /\ disk' = x.disk
                /\ log' = x.log
                /\ exc' = x.exc
                /\ pc' = IF x.exc = NoExc THEN "customize" ELSE "ign_restore"
       ELSE /\ pc' = "customize"
            /\ UNCHANGED <<disk, log, exc>>
    /\ UNCHANGED <<outcome, config, errors, idx, ignition_file, temp_butane_file,
                   old_ignition_file, old_ignition_file2, downloaded, out0, base0, runs>>
    /\ UNCHANGED cfgvars

\* lines 213-214 and 125: swap in the scoped path, then customize_iso's show_step
CustomizeShowStep ==
    /\ pc = "customize"
    /\ old_ignition_file2' = config.ignition_file
    /\ config' = [config EXCEPT !.ignition_file = ignition_file]
    /\ \E o \in ViewOutcome :
        /\ log' = Append(log, Event("show_step", <<"Step 3", "Create custom ISO">>, o))
        /\ exc' = ViewExc(o)
        /\ pc' = IF o = "ok" THEN "cust_pre" ELSE "cust_restore"
    /\ UNCHANGED <<outcome, errors, idx, ignition_file, temp_butane_file,
                   old_ignition_file, downloaded, disk, out0, base0, runs>>
    /\ UNCHANGED cfgvars

\* a precondition that does not look at the base-image path
customize_precondition_without_base(c) ==
    /\ c.ignition_file # ""
    /\ c.output_iso # ""
    /\ c.install_disk # ""

\* the all([...]) of lines 127-134
customize_precondition(c) ==
    /\ c.ignition_file # ""
    /\ c.output_iso # ""
    /\ c.install_disk # ""
    /\ c.base_iso # ""

\* lines 127-135: the precondition of customize_iso
CustomizePrecondition ==
    /\ pc = "cust_pre"
    /\ IF customize_precondition(config)
       THEN /\ pc' = "cust_remove"
            /\ UNCHANGED exc
       ELSE /\ exc' = Exc("ValueError", <<"Missing required configuration for ISO customization">>)
            /\ pc' = "cust_restore"
    /\ UNCHANGED <<outcome, config, errors, idx, ignition_file, temp_butane_file,
                   old_ignition_file, old_ignition_file2, downloaded, disk, log,
                   out0, base0, runs>>
    /\ UNCHANGED cfgvars

\* lines 137-143: remove an existing output image, then the second path check
CustomizeRemoveExisting ==
    /\ pc = "cust_remove"
    /\ IF output_iso_exists(config)
       THEN \E rm \in {"ok", "fail"} :
            LET x == os_remove(disk, log, NoExc, config.output_iso, rm)
            IN  /\ disk' = x.disk
                /\ log' = x.log
                /\ exc' = x.exc
       ELSE UNCHANGED <<disk, log, exc>>
    /\ pc' = IF exc' # NoExc THEN "cust_restore"
             ELSE IF config.ignition_file = "" \/ config.output_iso = "" THEN "cust_restore"
             ELSE "cust_cmd"
    /\ UNCHANGED <<outcome, config, errors, idx, ignition_file, temp_butane_file,
                   old_ignition_file, old_ignition_file2, downloaded, out0, base0, runs>>
    /\ UNCHANGED cfgvars

\* a customize command that embeds the configuration's default activation path
customize_cmd_default_path ==
    <<"coreos-installer", "iso", "customize", "--dest-ignition", DefaultIgn,
      "--dest-device", config.install_disk, "-o", config.output_iso, config.base_iso>>

customize_cmd ==
    <<"coreos-installer", "iso", "customize", "--dest-ignition", config.ignition_file,
      "--dest-device", config.install_disk, "-o", config.output_iso, config.base_iso>>

\* lines 145-157: coreos-installer iso customize ... -o <output> <base>
\* (the tool can only succeed on a base image that is there; a run of the tool
\* that does not succeed may leave a truncated output behind)
CustomizeCommand ==
    /\ pc = "cust_cmd"
    /\ \E o \in CmdOutcome, se \in ViewOutcome : \E r \in Results(o, {""}) :
        /\ o = "ok" => path_exists(config.base_iso)
        /\ LET x == run_command(log, customize_cmd, o, r, se)
           IN  /\ log' = x.log
               /\ exc' = x.exc
        /\ IF o = "ok"
           THEN disk' = [disk EXCEPT ![config.output_iso] = File(NewImage(runs))]
           ELSE \E partial \in BOOLEAN :
                  disk' = IF partial
                          THEN [disk EXCEPT ![config.output_iso] = File(PartialImage(runs))]
                          ELSE disk
    /\ pc' = "cust_restore"
    /\ UNCHANGED <<outcome, config, errors, idx, ignition_file, temp_butane_file,
                   old_ignition_file, old_ignition_file2, downloaded, out0, base0, runs>>
    /\ UNCHANGED cfgvars

\* a create_iso that reports completion whatever customize_iso did
CustomizeRestore_then_completion ==
    /\ pc = "cust_restore"
    /\ config' = [config EXCEPT !.ignition_file = old_ignition_file2]
    /\ pc' = "completion"
    /\ UNCHANGED <<outcome, exc, errors, idx, ignition_file, temp_butane_file,
                   old_ignition_file, old_ignition_file2, downloaded, disk, log,
                   out0, base0, runs>>
    /\ UNCHANGED cfgvars

\* lines 217-218: finally: self.config.ignition_file = old_ignition_file
CustomizeRestore ==
    /\ pc = "cust_restore"
    /\ config' = [config EXCEPT !.ignition_file = old_ignition_file2]
    /\ pc' = IF exc = NoExc THEN "completion" ELSE "ign_restore"
    /\ UNCHANGED <<outcome, exc, errors, idx, ignition_file, temp_butane_file,
                   old_ignition_file, old_ignition_file2, downloaded, disk, log,
                   out0, base0, runs>>
    /\ UNCHANGED cfgvars

\* line 221: self.view.show_completion(self.config)
ShowCompletion ==
    /\ pc = "completion"
    /\ \E o \in ViewOutcome :
        /\ log' = Append(log, Event("show_completion", <<>>, o))
        /\ exc' = ViewExc(o)
    /\ pc' = "ign_restore"
    /\ UNCHANGED <<outcome, config, errors, idx, ignition_file, temp_butane_file,
                   old_ignition_file, old_ignition_file2, downloaded, disk,
                   out0, base0, runs>>
    /\ UNCHANGED cfgvars

\* a scope exit that leaves config.ignition_file as the body had it
IgnitionRestore_without_restore ==
    /\ pc = "ign_restore"
    /\ pc' = "ign_exit"
    /\ UNCHANGED <<outcome, exc, config, errors, idx, ignition_file, temp_butane_file,
                   old_ignition_file, old_ignition_file2, downloaded, disk, log,
                   out0, base0, runs>>
    /\ UNCHANGED cfgvars

\* lines 99-101: finally: self.config.ignition_file = old_ignition_file
IgnitionRestore ==
    /\ pc = "ign_restore"
    /\ config' = [config EXCEPT !.ignition_file = old_ignition_file]
    /\ pc' = "ign_exit"
    /\ UNCHANGED <<outcome, exc, errors, idx, ignition_file, temp_butane_file,
                   old_ignition_file, old_ignition_file2, downloaded, disk, log,
                   out0, base0, runs>>
    /\ UNCHANGED cfgvars

\* the end of the activation-file scope (lines 40-42), then the end of create_iso's try
IgnitionExit ==
    /\ pc = "ign_exit"
    /\ \E rm \in {"ok", "fail"} :
        LET x == temp_file_exit(disk, log, exc, ignition_file, rm)
        IN  /\ disk' = x.disk
            /\ log' = x.log
            /\ exc' = x.exc
            /\ pc' = IF x.exc = NoExc THEN "done" ELSE "handler"
            /\ outcome' = IF x.exc = NoExc THEN "returned" ELSE outcome
    /\ UNCHANGED <<config, errors, idx, ignition_file, temp_butane_file,
                   old_ignition_file, old_ignition_file2, downloaded, out0, base0, runs>>
    /\ UNCHANGED cfgvars

\* a create_iso that starts over after reporting an error
Handler_restart ==
    /\ pc = "handler"
    /\ IF exc.type = "KeyboardInterrupt"
       THEN UNCHANGED <<exc, log>>
       ELSE \E se \in ViewOutcome :
            /\ log' = Append(log, Event("show_error", exc.msg, se))
            /\ exc' = IF se = "ok" THEN exc ELSE ViewExc(se)
    /\ outcome' = "running"
    /\ pc' = "configure"
    /\ UNCHANGED <<config, errors, idx, ignition_file, temp_butane_file,
                   old_ignition_file, old_ignition_file2, downloaded, disk,
                   out0, base0, runs>>
    /\ UNCHANGED cfgvars

\* lines 225-230: except KeyboardInterrupt: raise / except Exception: show_error; raise
\* a handler with the single clause `except BaseException`, which reports an
\* interruption like any other error
Handler_reports_interrupt ==
    /\ pc = "handler"
    /\ \E se \in ViewOutcome :
        /\ log' = Append(log, Event("show_error", exc.msg, se))
        /\ exc' = IF se = "ok" THEN exc ELSE ViewExc(se)
    /\ outcome' = "raised"
    /\ pc' = "done"
    /\ UNCHANGED <<config, errors, idx, ignition_file, temp_butane_file,
                   old_ignition_file, old_ignition_file2, downloaded, disk,
                   out0, base0, runs>>
    /\ UNCHANGED cfgvars

Handler ==
    /\ pc = "handler"
    /\ IF exc.type = "KeyboardInterrupt"
       THEN UNCHANGED <<exc, log>>
       ELSE \E se \in ViewOutcome :
            /\ log' = Append(log, Event("show_error", exc.msg, se))
            /\ exc' = IF se = "ok" THEN exc ELSE ViewExc(se)
    /\ outcome' = "raised"
    /\ pc' = "done"
    /\ UNCHANGED <<config, errors, idx, ignition_file, temp_butane_file,
                   old_ignition_file, old_ignition_file2, downloaded, disk,
                   out0, base0, runs>>
    /\ UNCHANGED cfgvars

\* create_iso is called again on the same controller and the same disk
StartRun ==
    /\ pc = "done"
    /\ runs < MaxRuns
    /\ runs' = runs + 1
    /\ pc' = "configure"
    /\ outcome' = "running"
    /\ exc' = NoExc
    /\ errors' = <<>>
    /\ idx' = 1
    /\ ignition_file' = ""
    /\ temp_butane_file' = ""
    /\ old_ignition_file' = ""
    /\ old_ignition_file2' = ""
    /\ downloaded' = ""
    /\ log' = <<>>
    /\ out0' = disk[OutputIsoPath]
    /\ base0' = disk[BaseIsoPath].exists
    /\ UNCHANGED <<config, disk>>
    /\ UNCHANGED cfgvars

Next ==
    \/ ConfigureSettings
    \/ Validate
    \/ ReportError
    \/ ShowSettingsSummary
    \/ ConfirmProceed
    \/ CreateIgnitionFile
    \/ ShowStep1
    \/ ProcessButaneTemplate
    \/ Convert
    \/ ValidateIgnition
    \/ TemplateExit
    \/ DownloadBaseIsoExists
    \/ DownloadShowStep
    \/ DownloadCommand
    \/ DownloadRename
    \/ CustomizeShowStep
    \/ CustomizePrecondition
    \/ CustomizeRemoveExisting
    \/ CustomizeCommand
    \/ CustomizeRestore
    \/ ShowCompletion
    \/ IgnitionRestore
    \/ IgnitionExit
    \/ Handler
    \/ StartRun

Spec == Init /\ [][Next]_vars

(***************************************************************************)
(* The configuration object on its own: ISOCreationConfig(...) is built     *)
(* from explicit arguments, then validated, rendered into the template,     *)
(* built a second time, or taken through the prompts of configure_settings  *)
(* and resolved again                                                       *)
(***************************************************************************)
InitConfig ==
    /\ pc = "post_init"
    /\ kwargs \in Kwargs
    /\ env \in Envs
    /\ config = kwargs
    /\ other = kwargs
    /\ rendered = <<>>
    /\ errors = <<>>
    /\ outcome = "running"
    /\ exc = NoExc
    /\ idx = 1
    /\ ignition_file = ""
    /\ temp_butane_file = ""
    /\ old_ignition_file = ""
    /\ old_ignition_file2 = ""
    /\ downloaded = ""
    /\ disk = InitDisk(TRUE, FALSE, FALSE)
    /\ log = <<>>
    /\ out0 = Absent
    /\ base0 = FALSE
    /\ runs = 1

\* the generated __init__ has assigned the arguments; it ends in __post_init__
PostInit ==
    /\ pc = "post_init"
    /\ config' = post_init(config, env)
    /\ pc' = "constructed"
    /\ UNCHANGED <<errors, kwargs, env, other, rendered>>
    /\ UNCHANGED runvars

\* configure_settings, lines 95-114: the prompts assign five fields of a
\* configuration built without arguments
Prompts ==
    /\ pc = "constructed"
    /\ kwargs = DefaultKwargs
    /\ \E k \in {"", "ssh-ed25519 AAAA x@y"}, u \in {"user", "admin"}, h \in {"", "k3s"},
          d \in {config.install_disk, "/dev/nvme0n1"},
          o \in {config.output_iso, "custom.iso"} :
          config' = [config EXCEPT !.ssh_key = k, !.username = u, !.hostname = h,
                                   !.install_disk = d, !.output_iso = o]
    /\ pc' = "prompted"
    /\ UNCHANGED <<errors, kwargs, env, other, rendered>>
    /\ UNCHANGED runvars

\* configure_settings, line 117: config.__post_init__() on the resolved object
PostInitAgain ==
    /\ pc \in {"constructed", "prompted"}
    /\ config' = post_init(config, env)
    /\ pc' = "resolved_again"
    /\ UNCHANGED <<errors, kwargs, env, other, rendered>>
    /\ UNCHANGED runvars

\* ISOCreationConfig(...) called once more with the same arguments
ConstructOther ==
    /\ pc = "constructed"
    /\ other' = post_init(kwargs, env)
    /\ pc' = "twice"
    /\ UNCHANGED <<config, errors, kwargs, env, rendered>>
    /\ UNCHANGED runvars

\* config.validate()
ValidateConfig ==
    /\ pc \in {"constructed", "resolved_again"}
    /\ errors' = validate(config)
    /\ pc' = "validated"
    /\ UNCHANGED <<config, kwargs, env, other, rendered>>
    /\ UNCHANGED runvars

\* process_butane_template, lines 77-84, on the template of the repository
Render ==
    /\ pc = "constructed"
    /\ rendered' = processed_content(TemplateText, config)
    /\ pc' = "rendered"
    /\ UNCHANGED <<config, errors, kwargs, env, other>>
    /\ UNCHANGED runvars

NextConfig ==
    \/ PostInit
    \/ Prompts
    \/ PostInitAgain
    \/ ConstructOther
    \/ ValidateConfig
    \/ Render

SpecConfig == InitConfig /\ [][NextConfig]_vars

(***************************************************************************)
(* Reading the log                                                         *)
(***************************************************************************)
IsLaunch(e) == e.ev = "execute_with_progress"
IsConvert(e) == IsLaunch(e) /\ e.args[1] = "butane"
IsValidate(e) == IsLaunch(e) /\ e.args[1] = "ignition-validate"
IsFetch(e) == IsLaunch(e) /\ e.args[1] = "coreos-installer" /\ e.args[2] = "download"
IsCustomize(e) == IsLaunch(e) /\ e.args[1] = "coreos-installer" /\ e.args[2] = "iso"

\* the place of a command in the pipeline
StepOf(e) ==
    IF IsConvert(e) THEN 1 ELSE IF IsValidate(e) THEN 2 ELSE IF IsFetch(e) THEN 3 ELSE 4

Launches == {i \in DOMAIN log : IsLaunch(log[i])}
Happened(e) == \E i \in DOMAIN log : log[i] = e
Called(name) == \E i \in DOMAIN log : log[i].ev = name
Created(p) == Happened(Event("mkstemp", <<p>>, "ok"))
RemovalFailed(p) == Happened(Event("remove", <<p>>, "fail"))
Removed(p) == Happened(Event("remove", <<p>>, "ok"))
Interrupted == \E i \in DOMAIN log : log[i].out = "interrupt"
Finished == pc = "done"

(***************************************************************************)
(* C1..C10: the pipeline and its scopes                                    *)
(***************************************************************************)

\* C1  Scope cleanup: once create_iso has returned or raised, a temp file this
\* run created (.ign or .bu) is no longer on disk, whichever step failed; the
\* only file that can remain is one whose os.remove was refused by the OS.
C1_ScopeCleanup ==
    Finished =>
        \A p \in TempPaths : (Created(p) /\ path_exists(p)) => RemovalFailed(p)

\* a run in which the convert command failed with both temp files live, and
\* that ended with neither of them on disk
C1_Witness ==
    /\ Finished
    /\ Created(ignition_file) /\ Created(temp_butane_file)
    /\ \E i \in Launches : IsConvert(log[i]) /\ log[i].out = "fail"
    /\ ~path_exists(ignition_file) /\ ~path_exists(temp_butane_file)

\* C2  Interruption: when a KeyboardInterrupt arrived during the run, no
\* command is launched after it, every temp file live at that moment gets its
\* removal (the .bu file before the .ign file), and create_iso ends by raising
\* KeyboardInterrupt.
C2_Interruption ==
    (Finished /\ Interrupted) =>
        LET at == CHOOSE i \in DOMAIN log : log[i].out = "interrupt"
            rm(p) == {j \in DOMAIN log : j > at /\ log[j].ev = "remove" /\ log[j].args = <<p>>}
            liveAt(p) == /\ \E j \in 1..at : log[j] = Event("mkstemp", <<p>>, "ok")
                         /\ ~\E j \in 1..at : log[j].ev = "remove" /\ log[j].args = <<p>>
        IN  /\ \A j \in Launches : j <= at
            /\ \A p \in TempPaths : liveAt(p) => rm(p) # {}
            /\ (liveAt(temp_butane_file) /\ liveAt(ignition_file)) =>
                  \A j \in rm(temp_butane_file), k \in rm(ignition_file) : j < k
            /\ outcome = "raised"
            /\ exc.type = "KeyboardInterrupt"

\* C3  Abort on failed step: after a command that exited non-zero no further
\* command is launched in the run, the run ends by raising, and the activation
\* file's scope has run its removal.
C3_AbortOnFailedStep ==
    \A i \in Launches : log[i].out = "fail" =>
        /\ \A j \in Launches : j <= i
        /\ Finished =>
              /\ outcome = "raised"
              /\ \E k \in DOMAIN log :
                    k > i /\ log[k].ev = "remove" /\ log[k].args = <<ignition_file>>
              /\ path_exists(ignition_file) => RemovalFailed(ignition_file)

\* a finished run whose convert command failed: nothing was launched after it
\* and the activation file is gone
C3_Witness ==
    /\ Finished
    /\ \E i \in Launches : IsConvert(log[i]) /\ log[i].out = "fail"
    /\ Removed(ignition_file)
    /\ Cardinality(Launches) = 1

\* C4  Step ordering: the commands of a run are launched in the order convert,
\* validate, fetch, customize, each at most once and each only after every
\* earlier one exited 0; validate needs convert, and fetch and customize need
\* validate, to have been launched before.
C4_StepOrdering ==
    /\ \A i, j \in Launches :
          i < j => (StepOf(log[i]) < StepOf(log[j]) /\ log[i].out = "ok")
    /\ \A j \in Launches :
          /\ StepOf(log[j]) >= 2 => \E i \in Launches : i < j /\ IsConvert(log[i])
          /\ StepOf(log[j]) >= 3 => \E i \in Launches : i < j /\ IsValidate(log[i])

\* a run that launched all four commands
C4_Witness ==
    /\ Cardinality(Launches) = 4
    /\ \E i \in Launches : IsFetch(log[i]) /\ log[i].out = "ok"
    /\ \E i \in Launches : IsCustomize(log[i]) /\ log[i].out = "ok"

\* C5  Validation failure has no side effects: in a run whose configuration
\* has a violation, nothing but configure_settings and show_error is ever
\* called: no temp file, no command, no summary, no confirmation, and the disk
\* is as it was.
C5_ValidationNoSideEffects ==
    (pc \notin {"configure", "validate"} /\ Called("configure_settings")
     /\ log[1].out = "ok" /\ validate(config) # <<>>) =>
        /\ \A i \in DOMAIN log : log[i].ev \in {"configure_settings", "show_error"}
        /\ pc \in {"report", "handler", "done"}
        /\ disk[OutputIsoPath] = out0
        /\ \A p \in TempPaths : path_exists(p) => ~Created(p)

\* a run that reported two violations and returned
C5_Witness ==
    /\ Finished /\ outcome = "returned"
    /\ Len(validate(config)) = 2
    /\ Len(log) = 3

\* C6  User declines: when confirm_proceed answered no, the run has returned
\* with no temp file created and no command launched.
C6_DeclineAcquiresNothing ==
    Happened(Event("confirm_proceed", <<>>, "declined")) =>
        /\ Finished /\ outcome = "returned"
        /\ ~Called("mkstemp")
        /\ Launches = {}
        /\ log[Len(log)].ev = "confirm_proceed"

\* a run the user declined
C6_Witness ==
    /\ Happened(Event("confirm_proceed", <<>>, "declined"))
    /\ Finished

Succeeded == \E i \in Launches : IsCustomize(log[i]) /\ log[i].out = "ok"
CustomizeLaunches == {i \in Launches : IsCustomize(log[i])}

\* C7 as stated  Atomic replace-on-success: an output image that was there
\* before the run is still there after a run that did not succeed.
C7_AtomicReplace ==
    (Finished /\ out0.exists /\ ~Succeeded) => disk[OutputIsoPath] = out0

\* C7 amended  The output image that was there before the run stays in place
\* exactly until customize_iso removes it, which it does before it launches the
\* customize command: after a customize command that failed or was
\* interrupted, the earlier image is no longer at the output path.
C7_RemovedBeforeCustomize ==
    out0.exists =>
        /\ disk[OutputIsoPath] = out0 <=> ~Removed(OutputIsoPath)
        /\ CustomizeLaunches # {} => disk[OutputIsoPath] # out0
        /\ Removed(OutputIsoPath) => pc \notin {"customize", "cust_pre", "cust_remove"}

\* a finished run whose customize command failed: the earlier image is gone
C7_Witness ==
    /\ Finished
    /\ out0.exists
    /\ \E i \in CustomizeLaunches : log[i].out = "fail"
    /\ ~disk[OutputIsoPath].exists

\* C8  Overwrite semantics: when an output image is there as CustomizingImage
\* starts, the customize command is launched only after that file was removed
\* and with the output path empty, at most once, and once the file is removed
\* the launch is the very next thing the run does.
C8_OverwriteSemantics ==
    /\ Cardinality(CustomizeLaunches) <= 1
    /\ pc = "cust_cmd" => ~path_exists(config.output_iso)
    /\ out0.exists =>
          /\ \A j \in CustomizeLaunches :
                j > 1 /\ log[j - 1] = Event("remove", <<OutputIsoPath>>, "ok")
          /\ (Removed(OutputIsoPath) /\ pc # "cust_cmd") =>
                Cardinality(CustomizeLaunches) = 1

\* a run that found an output image, removed it and launched the customize command
C8_Witness ==
    /\ out0.exists
    /\ Removed(OutputIsoPath)
    /\ Cardinality(CustomizeLaunches) = 1
    /\ Finished

BaseWasThere == base0 /\ config.base_iso = BaseIsoPath

\* C9  Skip-if-present: in a run that finds the base image at its path, the
\* fetch command is never launched, nothing is renamed and Step 2 is not shown.
C9_SkipIfPresent ==
    (BaseWasThere /\ Called("configure_settings") /\ log[1].out = "ok") =>
        /\ \A i \in Launches : ~IsFetch(log[i])
        /\ ~Called("rename")
        /\ \A i \in DOMAIN log : log[i].ev = "show_step" => log[i].args[1] # "Step 2"

\* a run that went from the template scope to CustomizingImage over an existing base image
C9_Witness ==
    /\ BaseWasThere
    /\ pc = "cust_pre"
    /\ \E i \in Launches : IsValidate(log[i]) /\ log[i].out = "ok"

\* C10  Fetch produces the base image: CustomizingImage never starts with the
\* base-image path absent.
C10_FetchProducesBase ==
    (pc = "customize" /\ config.base_iso # "") => path_exists(config.base_iso)

(***************************************************************************)
(* C11..C20: error handling, scopes and validation                         *)
(***************************************************************************)

\* C11  Cleanup never masks the outcome: right after the removal of a scoped
\* temp file failed at scope exit, the exception in flight is not the
\* removal's own error (it is whatever was in flight before, or none).
C11_CleanupNeverMasks ==
    \A p \in TempPaths :
        (log # <<>> /\ log[Len(log)] = Event("remove", <<p>>, "fail")) =>
            exc # Exc("OSError", <<"remove failed">>)

WriteFailures == {i \in DOMAIN log : log[i].ev = "write" /\ log[i].out = "fail"}

ErrorReports == {i \in DOMAIN log : log[i].ev = "show_error"}

\* C13  Single report plus re-raise: a run that passed validation and was
\* aborted by an error (not an interruption), with every removal and every
\* show_error call going through, has called show_error exactly once and has
\* raised.
C13_SingleReport ==
    (/\ Finished /\ outcome = "raised"
     /\ exc.type # "KeyboardInterrupt"
     /\ errors = <<>>
     /\ \A i \in ErrorReports : log[i].out = "ok"
     /\ \A p \in Paths : ~RemovalFailed(p)) =>
        Cardinality(ErrorReports) = 1

FailedLaunches == {i \in Launches : log[i].out = "fail"}

\* the message m carries the value v under the label lbl
Carries(m, lbl, v) == \E k \in 1..(Len(m) - 1) : m[k] = lbl /\ m[k + 1] = v

\* C14  Command failure reporting: a command that exited non-zero is followed
\* at once by one show_error whose message names the command, its exit code
\* and whatever the command wrote to stdout and to stderr; the command is not
\* launched again; and when that show_error returned, the exception leaving
\* run_command is the command's own CalledProcessError.
C14_CommandFailureReport ==
    \A i \in FailedLaunches :
        LET cmd == log[i].args
            r == log[i].res
        IN  /\ i < Len(log) /\ log[i + 1].ev = "show_error"
            /\ LET m == log[i + 1].args
               IN  /\ SubSeq(m, 2, Len(cmd) + 1) = cmd
                   /\ Carries(m, "Return code:", r.returncode)
                   /\ r.stdout # "" => Carries(m, "STDOUT:", r.stdout)
                   /\ r.stderr # "" => Carries(m, "STDERR:", r.stderr)
            /\ \A j \in Launches : j # i => log[j].args # cmd
            /\ (Len(log) = i + 1 /\ log[i + 1].out = "ok") =>
                  /\ exc.type = "CalledProcessError"
                  /\ exc.msg = <<"Command">> \o cmd
                               \o <<"returned non-zero exit status", r.returncode>>

\* the convert command failed having written to both streams, the failure was
\* reported and the error is on its way out of the template scope
C14_Witness ==
    /\ pc = "bu_exit"
    /\ \E i \in FailedLaunches :
          /\ IsConvert(log[i])
          /\ log[i].res.stdout = "out" /\ log[i].res.stderr = "bad syntax"
          /\ Len(log) = i + 1 /\ log[i + 1].out = "ok"
    /\ exc.type = "CalledProcessError"

\* the body of `with self._create_ignition_file()` is running (its finally
\* block, the step at "ign_restore", has not run yet)
IgnitionScopeOpen ==
    pc \in {"step1", "bu_enter", "convert", "validate_ign", "bu_exit", "download",
            "dl_cmd", "dl_rename", "customize", "cust_pre", "cust_remove", "cust_cmd",
            "cust_restore", "completion", "ign_restore"}

\* C15  Activation path swap and restore: while the activation-file scope is
\* open config.ignition_file is the scoped temp file's path; once the scope
\* has been left, however it was left, config.ignition_file is again the value
\* it had before the scope was entered (the one configure_settings returned).
C15_SwapAndRestore ==
    /\ IgnitionScopeOpen =>
          /\ ignition_file \in Range(IgnPool)
          /\ Created(ignition_file)
          /\ config.ignition_file = ignition_file
    /\ ~IgnitionScopeOpen =>
          /\ config.ignition_file = DefaultIgn
          /\ Created(ignition_file) => config.ignition_file = old_ignition_file

\* a run that was interrupted inside the activation-file scope and has left it
C15_Witness ==
    /\ Finished
    /\ Created(ignition_file)
    /\ Interrupted
    /\ exc.type = "KeyboardInterrupt"
    /\ config.ignition_file = DefaultIgn

Step3Shown == Happened(Event("show_step", <<"Step 3", "Create custom ISO">>, "ok"))

\* C16  Customize precondition: when customize_iso has started (its step was
\* shown) with the output path, the install target or the base-image path
\* unset, it raises ValueError: no output file is removed, the output path is
\* as the run found it, the customize command is never launched, and the run
\* ends by raising.
C16_CustomizePrecondition ==
    (/\ Step3Shown
     /\ config.output_iso = "" \/ config.install_disk = "" \/ config.base_iso = "") =>
        /\ pc \in {"cust_pre", "cust_restore", "ign_restore", "ign_exit", "handler", "done"}
        /\ CustomizeLaunches = {}
        /\ \A i \in DOMAIN log : log[i].ev = "remove" => log[i].args[1] \in TempPaths
        /\ disk[OutputIsoPath] = out0
        /\ pc = "cust_restore" =>
              exc = Exc("ValueError", <<"Missing required configuration for ISO customization">>)
        /\ Finished => outcome = "raised"

\* a finished run that reached customize_iso without a base-image path while
\* an earlier output image was there: the image is untouched
C16_Witness ==
    /\ Finished
    /\ Step3Shown
    /\ config.base_iso = ""
    /\ out0.exists
    /\ disk[OutputIsoPath] = out0
    /\ outcome = "raised"

Completions == {i \in DOMAIN log : log[i].ev = "show_completion"}

\* C17  Completion: show_completion is called at most once in a run, and only
\* after convert, validate and customize exited 0 and the fetch step either
\* exited 0 or was skipped over a base image that was there; once the run has
\* finished the activation file's removal has followed the report; and a run
\* that entered the activation-file scope and returned normally has made the
\* report exactly once and left no activation file.
C17_Completion ==
    /\ Cardinality(Completions) <= 1
    /\ \A k \in Completions :
          /\ \A i \in Launches : i < k /\ log[i].out = "ok"
          /\ \E i \in Launches : IsConvert(log[i])
          /\ \E i \in Launches : IsValidate(log[i])
          /\ \E i \in Launches : IsCustomize(log[i])
          /\ (\E i \in Launches : IsFetch(log[i])) \/ BaseWasThere
          /\ Finished =>
                /\ \E j \in DOMAIN log :
                      j > k /\ log[j].ev = "remove" /\ log[j].args = <<ignition_file>>
                /\ path_exists(ignition_file) => RemovalFailed(ignition_file)
    /\ (Finished /\ outcome = "returned" /\ Created(ignition_file)) =>
          /\ Cardinality(Completions) = 1
          /\ ~path_exists(ignition_file)

\* a run that fetched the base image, reported completion and returned, with
\* the activation file gone
C17_Witness ==
    /\ Finished /\ outcome = "returned"
    /\ Completions # {}
    /\ \E i \in Launches : IsFetch(log[i])
    /\ Removed(ignition_file)
    /\ ~path_exists(ignition_file)

\* FetchingBaseImage and CustomizingImage, up to the completion report
AfterTemplateScope ==
    pc \in {"download", "dl_cmd", "dl_rename", "customize", "cust_pre", "cust_remove",
            "cust_cmd", "cust_restore", "completion"}

\* the last event run_command logged for the launch at i
EndOfCommand(i) == IF log[i].out = "fail" THEN i + 1 ELSE i

\* C18  Template scope is step-local: the rendered-template file does not
\* exist at any time during FetchingBaseImage or CustomizingImage; the fetch and
\* customize commands are launched only after its removal; and its removal is
\* the first thing that happens after the validate command ended, or after a
\* convert command that did not exit 0 ended.
C18_TemplateScopeStepLocal ==
    /\ AfterTemplateScope =>
          /\ Created(temp_butane_file)
          /\ ~path_exists(temp_butane_file)
    /\ \A i \in Launches : (IsFetch(log[i]) \/ IsCustomize(log[i])) =>
          \E j \in 1..(i - 1) : log[j] = Event("remove", <<temp_butane_file>>, "ok")
    /\ \A i \in Launches :
          (IsValidate(log[i]) \/ (IsConvert(log[i]) /\ log[i].out # "ok")) =>
             /\ pc # "bu_exit" => Len(log) > EndOfCommand(i)
             /\ Len(log) > EndOfCommand(i) =>
                   /\ log[EndOfCommand(i) + 1].ev = "remove"
                   /\ log[EndOfCommand(i) + 1].args = <<temp_butane_file>>

\* the customize command is about to be launched after a fetch, and the
\* rendered-template file is gone
C18_Witness ==
    /\ pc = "cust_cmd"
    /\ \E i \in Launches : IsFetch(log[i])
    /\ Removed(temp_butane_file)
    /\ ~path_exists(temp_butane_file)

\* validate() has been called on the configuration the view returned, and
\* `errors` holds what it returned
Validated ==
    /\ pc \notin {"configure", "validate"}
    /\ log # <<>> /\ log[1] = Event("configure_settings", <<>>, "ok")

\* the rules in the order of the source, and the message of each
RuleOrder == <<"install_disk", "output_iso", "ssh_key", "hostname", "username">>
RuleMessage ==
    [install_disk |-> "Install disk must be specified",
     output_iso |-> "Output ISO filename must be specified",
     ssh_key |-> "SSH key must be specified",
     hostname |-> "Hostname must be specified",
     username |-> "Username must be specified"]
RulePos(m) == CHOOSE k \in DOMAIN RuleOrder : RuleMessage[RuleOrder[k]] = m

\* C19  Validation completeness: with the output path non-empty, when the
\* set S of empty fields among install target, SSH key, hostname and username
\* is any subset, validate() returns exactly |S| messages: the message of each
\* field in S, once, and nothing else.
C19_ValidationCompleteness ==
    (Validated /\ config.output_iso # "") =>
        LET S == {f \in {"install_disk", "ssh_key", "hostname", "username"} : config[f] = ""}
        IN  /\ Len(errors) = Cardinality(S)
            /\ Range(errors) = {RuleMessage[f] : f \in S}

\* validate() was called with hostname and username empty and the other
\* fields set, and returned two messages
C19_Witness ==
    /\ Validated
    /\ config.output_iso # "" /\ config.install_disk # "" /\ config.ssh_key # ""
    /\ config.hostname = "" /\ config.username = ""
    /\ Len(errors) = 2

\* C20  Validation order and no short-circuit: validate() returns the message
\* of every violated rule and of no other, in the order install target, output
\* path, SSH key, hostname, username; is_valid() is true exactly when
\* validate() returned the empty list, which is exactly when no field is empty.
C20_ValidationOrder ==
    Validated =>
        /\ \A k \in DOMAIN RuleOrder :
              config[RuleOrder[k]] = "" <=> RuleMessage[RuleOrder[k]] \in Range(errors)
        /\ \A i, j \in DOMAIN errors : i < j => RulePos(errors[i]) < RulePos(errors[j])
        /\ is_valid(config) <=> errors = <<>>
        /\ is_valid(config) <=> \A k \in DOMAIN RuleOrder : config[RuleOrder[k]] # ""

\* validate() was called with all five fields empty and returned five messages
C20_Witness ==
    /\ Validated
    /\ \A k \in DOMAIN RuleOrder : config[RuleOrder[k]] = ""
    /\ Len(errors) = 5
    /\ ~is_valid(config)

(***************************************************************************)
(* C21..C30                                                                *)
(***************************************************************************)

\* C21  Empty username is a violation: a configuration constructed with an
\* SSH key and a hostname but with username "" gets "Username must be
\* specified" from validate().
C21_EmptyUsernameViolation ==
    (/\ pc = "validated"
     /\ kwargs.username = "" /\ kwargs.ssh_key # "" /\ kwargs.hostname # "") =>
        "Username must be specified" \in Range(errors)

PathFields(c) == <<c.ignition_file, c.output_iso, c.base_iso, c.cache_dir, c.temp_dir>>

\* C22  Derived-field resolution is idempotent: a __post_init__ applied to an
\* already resolved configuration (directly, or after the prompts of
\* configure_settings) leaves the activation path, the output path, the
\* base-image path, the cache directory and the temp directory as they were;
\* and a second configuration built from the same arguments has the same
\* five paths as the first.
C22_ResolutionIdempotent ==
    [][/\ pc' = "resolved_again" => PathFields(config') = PathFields(config)
       /\ pc' = "twice" => PathFields(other') = PathFields(config')]_vars

\* a configuration built without arguments, taken through the prompts (which
\* changed the output name) and resolved again
C22_Witness ==
    /\ pc = "resolved_again"
    /\ kwargs = DefaultKwargs
    /\ config.output_iso = "custom.iso"
    /\ config.base_iso = BaseIsoPath
    /\ config.ignition_file = DefaultIgn

Placeholders == {"{{SSH_KEY}}", "{{HOSTNAME}}", "{{USERNAME}}"}

\* the template with each bound placeholder replaced by its configured value
\* and every other token as it was
Substituted(text, c) ==
    [i \in DOMAIN text |->
        IF text[i] = "{{SSH_KEY}}" THEN c.ssh_key
        ELSE IF text[i] = "{{HOSTNAME}}" THEN c.hostname
        ELSE IF text[i] = "{{USERNAME}}" THEN c.username
        ELSE text[i]]

\* C24  Template substitution: the rendered text is the template with every
\* {{SSH_KEY}}, {{HOSTNAME}} and {{USERNAME}} replaced by the configured value
\* and all other text, {{FOO}} included, verbatim.
C24_TemplateSubstitution ==
    pc = "rendered" => rendered = Substituted(TemplateText, config)

Step1Shown == Happened(Event("show_step", <<"Step 1", "Generate Ignition file">>, "ok"))

\* C25  Template not found: when the template resource is absent,
\* process_butane_template raises its not-found ValueError with no
\* rendered-template temp file asked for and no command launched; the run ends
\* by raising, after the removal of the activation file.
C25_TemplateNotFound ==
    (~path_exists(TemplatePath) /\ Step1Shown /\ pc # "bu_enter") =>
        /\ pc \in {"ign_restore", "ign_exit", "handler", "done"}
        /\ temp_butane_file = ""
        /\ \A i \in DOMAIN log : log[i].ev = "mkstemp" => log[i].args = <<ignition_file>>
        /\ Launches = {}
        /\ pc = "ign_restore" =>
              exc = Exc("ValueError", <<"Template file not found:", TemplatePath>>)
        /\ Finished =>
              /\ outcome = "raised"
              /\ \E k \in DOMAIN log :
                    log[k].ev = "remove" /\ log[k].args = <<ignition_file>>
              /\ path_exists(ignition_file) => RemovalFailed(ignition_file)

\* a finished run that found no template: it raised with the activation file
\* removed and nothing else done
C25_Witness ==
    /\ Finished
    /\ ~path_exists(TemplatePath)
    /\ Step1Shown
    /\ Removed(ignition_file) /\ ~path_exists(ignition_file)
    /\ outcome = "raised"

ValidateLaunches == {i \in Launches : IsValidate(log[i])}

\* C26 as stated  Template scope closes before validation: when the validate
\* command is about to be invoked, the rendered-template file is gone.
C26_ClosedBeforeValidation ==
    pc = "validate_ign" => ~path_exists(temp_butane_file)

\* C26 amended  Validation runs inside the template scope: when the validate
\* command is invoked the rendered-template file is still on disk, no removal
\* of it precedes the launch, and its removal is what follows the end of the
\* validate command.
C26_ValidationInsideScope ==
    /\ pc = "validate_ign" => path_exists(temp_butane_file)
    /\ \A i \in ValidateLaunches :
          /\ \A j \in 1..i : ~(log[j].ev = "remove" /\ log[j].args = <<temp_butane_file>>)
          /\ pc = "bu_exit" => path_exists(temp_butane_file)
          /\ Len(log) > EndOfCommand(i) =>
                /\ log[EndOfCommand(i) + 1].ev = "remove"
                /\ log[EndOfCommand(i) + 1].args = <<temp_butane_file>>

\* the validate command has exited 0 and the template scope is about to
\* close, with the rendered-template file still there
C26_Witness ==
    /\ pc = "bu_exit"
    /\ \E i \in ValidateLaunches : log[i].out = "ok"
    /\ path_exists(temp_butane_file)

\* the removals of p that this run has attempted
Removals(p) == {i \in DOMAIN log : log[i].ev = "remove" /\ log[i].args = <<p>>}

\* p is a temp file of this run whose scope has not yet run its cleanup
Live(p) == Created(p) /\ Removals(p) = {}

\* C27  LIFO nesting: in every state of a run a rendered-template file is live
\* only while the activation file is live; at most one file of each kind, so
\* at most two temp files, are live at once; a temp file that is on disk is
\* either live or one whose removal the OS refused; the removal of the
\* template file always precedes that of the activation file; and when the run
\* has finished nothing is live.
C27_LifoNesting ==
    /\ \A b \in Range(BuPool) : Live(b) => (ignition_file # "" /\ Live(ignition_file))
    /\ Cardinality({p \in Range(BuPool) : Live(p)}) <= 1
    /\ Cardinality({p \in Range(IgnPool) : Live(p)}) <= 1
    /\ \A p \in TempPaths : (Created(p) /\ path_exists(p)) => (Live(p) \/ RemovalFailed(p))
    /\ \A b \in Range(BuPool), g \in Range(IgnPool) :
          \A i \in Removals(b), j \in Removals(g) : i < j
    /\ Finished => \A p \in TempPaths : ~Live(p)

\* a finished run that had both files live and removed the template file
\* first, the activation file second
C27_Witness ==
    /\ Finished
    /\ Removed(temp_butane_file) /\ Removed(ignition_file)
    /\ \E i \in Launches : IsConvert(log[i]) /\ log[i].out = "fail"

\* the activation path in the argv of a convert, validate or customize launch
ActivationArg(e) ==
    IF IsConvert(e) THEN e.args[6] ELSE IF IsValidate(e) THEN e.args[2] ELSE e.args[5]

\* C28  One canonical activation path per run: the --output of the convert
\* command, the argument of the validate command and the --dest-ignition of
\* the customize command are all the scoped activation temp file of this run;
\* no removal of that file precedes any of these launches, and the file is on
\* disk whenever one of them is about to be launched.
C28_CanonicalActivationPath ==
    /\ \A i \in Launches : ~IsFetch(log[i]) =>
          /\ ActivationArg(log[i]) = ignition_file
          /\ ignition_file \in Range(IgnPool)
          /\ \E j \in 1..i : log[j] = Event("mkstemp", <<ignition_file>>, "ok")
          /\ \A j \in Removals(ignition_file) : j > i
    /\ pc \in {"convert", "validate_ign", "cust_cmd"} =>
          /\ path_exists(ignition_file)
          /\ config.ignition_file = ignition_file

\* a run that launched convert, validate and customize
C28_Witness ==
    /\ \E i \in Launches : IsConvert(log[i])
    /\ \E i \in Launches : IsValidate(log[i])
    /\ \E i \in Launches : IsCustomize(log[i]) /\ log[i].out = "ok"
    /\ pc = "cust_restore"
    /\ path_exists(ignition_file)

\* a step of the run in progress (StartRun is the next call of create_iso)
RunStep == Next /\ runs' = runs

\* C29  Terminal states are absorbing: a run that has returned or raised
\* takes no further step (so it launches nothing and creates nothing); and
\* from each non-terminal phase a step into failure or cancellation is
\* possible: a collaborator call or a command can raise in Configuring,
\* AwaitingConfirmation, GeneratingActivation, FetchingBaseImage and
\* CustomizingImage, the user can decline, Validating goes to the error report
\* when there is a violation, and an error that reached create_iso's handler
\* ends the run by raising.
C29_TerminalAbsorbing ==
    /\ Finished => (outcome \in {"returned", "raised"} /\ ~ENABLED RunStep)
    /\ pc # "done" => outcome = "running"
    /\ pc \in {"configure", "summary", "confirm", "ign_enter", "step1", "bu_enter",
               "convert", "validate_ign", "dl_cmd", "customize", "cust_cmd"} =>
          ENABLED (RunStep /\ exc' # NoExc)
    /\ (pc = "validate" /\ validate(config) # <<>>) => ENABLED (RunStep /\ pc' = "report")
    /\ pc = "confirm" => ENABLED (RunStep /\ pc' = "done" /\ outcome' = "returned")
    /\ (pc = "download" /\ ~base_iso_exists(config)) => ENABLED (RunStep /\ exc' # NoExc)
    /\ pc = "handler" => ENABLED (RunStep /\ pc' = "done" /\ outcome' = "raised")

\* a run that failed in CustomizingImage and has raised: no step of it is left
C29_Witness ==
    /\ Finished
    /\ outcome = "raised"
    /\ \E i \in CustomizeLaunches : log[i].out = "fail"
    /\ ~ENABLED RunStep

\* create_iso is one thread of straight-line code: as long as a statement of
\* the run is left and every call it waits on comes back, the run takes its
\* next step
LiveSpec == Spec /\ WF_vars(RunStep)

\* C30  Termination: every run of create_iso eventually ends, returned or
\* raised, with no temp-file scope still open.
C30_Termination ==
    (pc # "done") ~>
        (/\ pc = "done"
         /\ outcome \in {"returned", "raised"}
         /\ \A p \in TempPaths : ~Live(p))

\* a run that went through all four commands and has ended with both scopes closed
C30_Witness ==
    /\ Finished
    /\ Cardinality(Launches) = 4
    /\ Removals(temp_butane_file) # {} /\ Removals(ignition_file) # {}

(***************************************************************************)
(* C31..C37                                                                *)
(***************************************************************************)

\* C31  One error line per violation: in a run whose configuration has
\* violations and whose show_error calls all returned, the calls made after
\* configure_settings are exactly one show_error per message of validate(), in
\* the order validate() returned them, and the run ends by returning, with no
\* exception.
C31_OneLinePerViolation ==
    (/\ Validated /\ errors # <<>>
     /\ \A i \in ErrorReports : log[i].out = "ok") =>
        /\ errors = validate(config)
        /\ pc \in {"report", "done"}
        /\ Len(log) <= Len(errors) + 1
        /\ \A k \in 2..Len(log) : log[k] = Event("show_error", <<errors[k - 1]>>, "ok")
        /\ pc = "report" => Len(log) = idx
        /\ Finished =>
              /\ Len(log) = Len(errors) + 1
              /\ outcome = "returned"
              /\ exc = NoExc

\* a run that reported three violations, one call each, and returned
C31_Witness ==
    /\ Finished
    /\ Len(errors) = 3
    /\ Cardinality(ErrorReports) = 3
    /\ \A i \in ErrorReports : log[i].out = "ok"
    /\ outcome = "returned"

FetchLaunches == {i \in Launches : IsFetch(log[i])}

\* C32  Fetch failure leaves the deliverable untouched: after a fetch command
\* that exited non-zero the run never enters CustomizingImage (Step 3 is not
\* shown, no output file is removed, no customize command is launched), the
\* output path holds what it held when the run began, nothing is renamed, the
\* base-image path is as it was, and the run ends by raising.
C32_FetchFailureUntouched ==
    \A i \in FetchLaunches : log[i].out = "fail" =>
        /\ pc \in {"ign_restore", "ign_exit", "handler", "done"}
        /\ \A k \in DOMAIN log : log[k].ev = "show_step" => log[k].args[1] # "Step 3"
        /\ CustomizeLaunches = {}
        /\ ~Called("rename")
        /\ \A k \in DOMAIN log : log[k].ev = "remove" => log[k].args[1] \in TempPaths
        /\ disk[OutputIsoPath] = out0
        /\ disk[BaseIsoPath].exists = base0
        /\ Finished => outcome = "raised"

\* a finished run whose fetch command failed while an earlier output image
\* was there: the image is as it was
C32_Witness ==
    /\ Finished
    /\ \E i \in FetchLaunches : log[i].out = "fail"
    /\ out0.exists
    /\ disk[OutputIsoPath] = out0
    /\ outcome = "raised"

ReturnedLaunches == {i \in Launches : log[i].out = "ok"}

\* C34  Progress forwarding does not alter the result: what run_command hands
\* back for a command that succeeded is the very result execute_with_progress
\* returned for that argv (the fetch step reads the downloaded file's name
\* from that result's stdout), and for a command that failed, once the
\* failure is reported, the error leaving run_command is the
\* CalledProcessError the view raised, with that command and those streams.
C34_ResultForwarded ==
    /\ \A i \in ReturnedLaunches :
          /\ log[i].res.returncode = "0"
          /\ IsFetch(log[i]) => downloaded = log[i].res.stdout
    /\ \A i \in FailedLaunches :
          (Len(log) = i + 1 /\ log[i + 1].ev = "show_error" /\ log[i + 1].out = "ok")
              => exc = called_process_error(log[i].args, log[i].res)

\* the fetch command succeeded and printed the name of the file it wrote, and
\* the run is about to move the file of that name
C34_Witness ==
    /\ pc = "dl_rename"
    /\ \E i \in ReturnedLaunches :
          /\ IsFetch(log[i])
          /\ log[i].res.stdout = DownloadedIso
          /\ downloaded = DownloadedIso

\* C35  Literal, single-pass substitution: a value put in the place of a
\* placeholder is not itself scanned, so an SSH key that is the text
\* {{HOSTNAME}} or {{USERNAME}}, or a hostname that is the text {{USERNAME}},
\* stands unchanged in the rendered output where its placeholder stood.
C35_SinglePass ==
    pc = "rendered" =>
        \A i \in DOMAIN TemplateText :
            /\ (TemplateText[i] = "{{SSH_KEY}}"
                    /\ config.ssh_key \in {"{{HOSTNAME}}", "{{USERNAME}}"})
                  => rendered[i] = config.ssh_key
            /\ (TemplateText[i] = "{{HOSTNAME}}" /\ config.hostname = "{{USERNAME}}")
                  => rendered[i] = config.hostname

\* the run is over and a KeyboardInterrupt left create_iso
EndedByInterrupt == Finished /\ outcome = "raised" /\ exc.type = "KeyboardInterrupt"

\* the call during which the interruption that ended the run arrived
InterruptAt == CHOOSE k \in DOMAIN log :
                  /\ log[k].out = "interrupt"
                  /\ \A j \in DOMAIN log : log[j].out = "interrupt" => j <= k

\* C36 as stated: a run that ended by KeyboardInterrupt made no show_error call
\* once interrupted and never called show_completion, and a run that ended by
\* an ordinary exception passed that exception to show_error.
C36_CompletionNeverCalled ==
    /\ EndedByInterrupt =>
          /\ Interrupted
          /\ \A j \in ErrorReports : j <= InterruptAt
          /\ Completions = {}
    /\ (Finished /\ outcome = "raised" /\ exc.type # "KeyboardInterrupt") =>
          /\ Len(log) > 0 /\ log[Len(log)].ev = "show_error"
          /\ log[Len(log)].out = "ok" => log[Len(log)].args = exc.msg

\* C36  Interruption is not reported as an error: in a run that ended by
\* KeyboardInterrupt no show_error and no show_completion call follows the
\* call that was interrupted (the handler reports nothing for the
\* interruption); a show_completion call there has been is either the
\* interrupted call itself or came before an ordinary failure whose top-level
\* show_error was the interrupted call; and a run that ended by an ordinary
\* exception passed that exception to show_error as its last call.
C36_InterruptNotReported ==
    /\ EndedByInterrupt =>
          /\ Interrupted
          /\ \A j \in ErrorReports \cup Completions : j <= InterruptAt
          /\ \A j \in Completions :
                \/ j = InterruptAt
                \/ /\ log[InterruptAt].ev = "show_error"
                   /\ InterruptAt = Len(log)
    /\ (Finished /\ outcome = "raised" /\ exc.type # "KeyboardInterrupt") =>
          /\ Len(log) > 0 /\ log[Len(log)].ev = "show_error"
          /\ log[Len(log)].out = "ok" => log[Len(log)].args = exc.msg

\* the convert command was interrupted after Step 1 had been shown, and the run
\* ended by that KeyboardInterrupt with both temp files removed
C36_Witness ==
    /\ EndedByInterrupt
    /\ IsConvert(log[InterruptAt])
    /\ Step1Shown
    /\ ErrorReports = {}
    /\ Removed(temp_butane_file) /\ Removed(ignition_file)

\* C37  Configuration is unchanged by a run: once configure_settings has
\* returned, no step changes any field but ignition_file; outside the
\* activation-file scope no step changes the configuration at all; entering
\* the scope remembers the ignition_file of that moment, inside the scope
\* (the inner swap around customize_iso included) ignition_file is the scoped
\* path and the remembered value is kept, and leaving the scope, by return or
\* by exception, puts the remembered value back. So a run that got past
\* validation ends with every field as validation saw it.
C37_ConfigUnchanged ==
    [][ /\ pc # "configure" =>
              \A f \in DOMAIN config \ {"ignition_file"} : config'[f] = config[f]
        /\ (pc # "configure" /\ ~IgnitionScopeOpen /\ ~IgnitionScopeOpen') =>
              config' = config
        /\ (~IgnitionScopeOpen /\ IgnitionScopeOpen') =>
              /\ old_ignition_file' = config.ignition_file
              /\ config'.ignition_file = ignition_file'
        /\ (IgnitionScopeOpen /\ IgnitionScopeOpen') =>
              /\ old_ignition_file' = old_ignition_file
              /\ config'.ignition_file = ignition_file
        /\ (IgnitionScopeOpen /\ ~IgnitionScopeOpen') =>
              config'.ignition_file = old_ignition_file
      ]_vars

\* the customize command failed inside the inner swap, the run ended by
\* raising, and the configuration is the validated one again
C37_Witness ==
    /\ Finished /\ outcome = "raised" /\ Validated
    /\ \E i \in FailedLaunches : IsCustomize(log[i])
    /\ old_ignition_file2 = ignition_file
    /\ ignition_file \in Range(IgnPool)
    /\ config.ignition_file = old_ignition_file
    /\ config \in Configs /\ is_valid(config)

====
